---- MODULE Spec2Model ----
(***************************************************************************)
(* StaticVec<T, N> (src/src/lib.rs): an inline array of N MaybeUninit<T>   *)
(* slots with a logical length, and the two select combinators SelectVec   *)
(* and SelectVecAndFut that poll a StaticVec of futures.                   *)
(*                                                                         *)
(* Elements are objects with identities 1..MaxElem, handed out in order by *)
(* `next`; an element's value (and, for a future, its output) is its       *)
(* identity.  A slot holds the raw bits the code left there: Uninit for a  *)
(* slot never written, or an element identity, which may be a stale        *)
(* bitwise copy of an element that was moved elsewhere.                    *)
(***************************************************************************)
EXTENDS Integers, Sequences, FiniteSets, TLC

\* Largest capacity N modelled.
MaxN ==
    3

\* Number of element objects that can be created in one run.
MaxElem ==
    4

\* Largest source (slice, iterator, array) handed to one call.
MaxSrc ==
    2

\* MaybeUninit::uninit_array(): the content of a slot that was never written.
Uninit ==
    0

\* No value (an operation that returns none).
None ==
    -1

\* The output of the extra future of SelectVecAndFut.
ExtraOut ==
    -2

Elems ==
    1..MaxElem

VARIABLES
    N,        \* const N: usize, the capacity of the type
    tCopy,    \* TRUE: T is Copy (no drop glue); FALSE: T has drop glue
    pc,       \* "none": no store yet, "live": a store exists, "gone": it went out of scope
    len,      \* StaticVec::len
    data,     \* StaticVec::data, slot index 0..N-1 -> Uninit or element
    next,     \* the next fresh element identity
    dropped,  \* element -> how many times its destructor ran (capped at 2)
    out,      \* elements remove() returned to the caller, who owns them now
    ready,    \* what would report Ready in the last call's poll round: the indices
              \* of stored futures, and ExtraOut for the extra future
    last,     \* the last call: operation, argument, result, what it polled and pulled
    done,     \* the stored futures that have completed; a complete future stays complete
    got       \* the results the races of a racing caller resolved with, in order

vars ==
    <<N, tCopy, pc, len, data, next, dropped, out, ready, last, done, got>>

\* as_slice / as_mut_slice / iter / iter_mut: the slots [0, l) of d in index order.
ViewOf(d, l) ==
    [i \in 1..l |-> d[i - 1]]

View ==
    ViewOf(data, len)

\* The elements of the occupied prefix [0, len).
Stored ==
    {data[i] : i \in 0..(len - 1)} \ {Uninit}

\* The record of a call; every field is always present.
Call(op, res, val, arg, polled, pulled, tag) ==
    [op |-> op, res |-> res, val |-> val, arg |-> arg,
     polled |-> polled, pulled |-> pulled, tag |-> tag]

\* The k fresh elements a source holds, in source order.
Fresh(k) ==
    [j \in 1..k |-> next + j - 1]

\* Running T's destructor on slot content c.  A Copy type has no drop glue.
\* Dropping an unwritten slot is undefined behaviour: the garbage may alias
\* any element created so far (g) or none (g = Uninit).
DropOf(dr, c, g) ==
    LET e == IF c = Uninit THEN g ELSE c
    IN  IF tCopy \/ e = Uninit
        THEN dr
        ELSE [dr EXCEPT ![e] = IF @ < 2 THEN @ + 1 ELSE 2]

\* What dropping slot content c may hit: c itself, or for an unwritten slot
\* nothing (Uninit) or any element created so far.
Garbage(c) ==
    IF c = Uninit /\ ~tCopy
    THEN {Uninit} \cup (1..(next - 1))
    ELSE {Uninit}

\* Faulty variant of Resize: the capacity check is off by one.
ResizeOffByOne(l, new_len) ==
    IF new_len > N + 1
    THEN [ok |-> FALSE, len |-> l]
    ELSE [ok |-> TRUE, len |-> new_len]

\* Faulty variant of Resize: the length is stored before the capacity is checked.
ResizeAssignFirst(l, new_len) ==
    IF new_len > N
    THEN [ok |-> FALSE, len |-> new_len]
    ELSE [ok |-> TRUE, len |-> new_len]

\* resize (lines 77-83) on a store of length l: whether it succeeded, and
\* self.len after it.
Resize(l, new_len) ==
    IF new_len > N
    THEN [ok |-> FALSE, len |-> l]
    ELSE [ok |-> TRUE, len |-> new_len]

----
\* Construction.

\* Faulty variant of New: a length equal to the capacity is refused as well.
NewBelowCapacityOnly(n) ==
    /\ pc = "none"
    /\ IF n >= N
       THEN /\ last' = Call("new", "CapacityExceeded", None, n, <<>>, 0, "")
            /\ UNCHANGED <<pc, len, data>>
       ELSE /\ pc' = "live"
            /\ len' = n
            /\ data' = [i \in 0..(N - 1) |-> Uninit]
            /\ last' = Call("new", "Ok", None, n, <<>>, 0, "")
    /\ UNCHANGED <<N, tCopy, next, dropped, out>>
    /\ ready' = {}
    /\ UNCHANGED <<done, got>>

\* StaticVec::new(len) (lines 37-45).
New(n) ==
    /\ pc = "none"
    /\ IF n > N
       THEN /\ last' = Call("new", "CapacityExceeded", None, n, <<>>, 0, "")
            /\ UNCHANGED <<pc, len, data>>
       ELSE /\ pc' = "live"
            /\ len' = n
            /\ data' = [i \in 0..(N - 1) |-> Uninit]
            /\ last' = Call("new", "Ok", None, n, <<>>, 0, "")
    /\ UNCHANGED <<N, tCopy, next, dropped, out>>
    /\ ready' = {}
    /\ UNCHANGED <<done, got>>

\* Faulty variant of ExtendArray: the source is stored in reverse order.
ExtendArrayReversed(a) ==
    [i \in 0..(N - 1) |-> IF i < Len(a) THEN a[Len(a) - i] ELSE Uninit]

\* extend_array (lines 23-34): an N-slot array whose first Len(a) slots hold a.
ExtendArray(a) ==
    [i \in 0..(N - 1) |-> IF i < Len(a) THEN a[i + 1] ELSE Uninit]

\* StaticVec::from_array::<A>(value) (lines 126-134); [(); N - A] requires A <= N.
\* From<[MaybeUninit<T>; N]> (lines 227-234) sets len to N, resize(A) then sets it to A.
FromArray(a) ==
    /\ pc = "none"
    /\ a <= N
    /\ next + a - 1 <= MaxElem
    /\ pc' = "live"
    /\ data' = ExtendArray(Fresh(a))
    /\ len' = Resize(N, a).len
    /\ next' = next + a
    /\ last' = Call("from_array", "Ok", None, a, <<>>, 0, "")
    /\ UNCHANGED <<N, tCopy, dropped, out>>
    /\ ready' = {}
    /\ UNCHANGED <<done, got>>

\* From<[T; N]> (lines 218-225).
FromFull ==
    /\ pc = "none"
    /\ next + N - 1 <= MaxElem
    /\ pc' = "live"
    /\ data' = [i \in 0..(N - 1) |-> Fresh(N)[i + 1]]
    /\ len' = N
    /\ next' = next + N
    /\ last' = Call("from", "Ok", None, N, <<>>, 0, "")
    /\ UNCHANGED <<N, tCopy, dropped, out>>
    /\ ready' = {}
    /\ UNCHANGED <<done, got>>

\* Default::default() (lines 200-207).
Default ==
    /\ pc = "none"
    /\ pc' = "live"
    /\ len' = 0
    /\ data' = [i \in 0..(N - 1) |-> Uninit]
    /\ last' = Call("default", "Ok", None, 0, <<>>, 0, "")
    /\ UNCHANGED <<N, tCopy, next, dropped, out>>
    /\ ready' = {}
    /\ UNCHANGED <<done, got>>

----
\* Mutation.

\* &mut self.data[..self.len] (line 62): the range is bounds-checked against N.
SliceInBounds(l) ==
    l <= N

\* Faulty variant of Push: the item is stored over the last occupied slot.
PushOverLast ==
    /\ pc = "live"
    /\ next <= MaxElem
    /\ LET item == next
           old_len == len
           r == Resize(len, old_len + 1)
           at == IF old_len > 0 THEN old_len - 1 ELSE 0
       IN  IF ~r.ok
           THEN /\ dropped' = DropOf(dropped, item, Uninit)
                /\ last' = Call("push", "CapacityExceeded", None, item, <<>>, 0, "")
                /\ len' = r.len
                /\ UNCHANGED data
           ELSE /\ len' = r.len
                /\ \E g \in Garbage(data[at]) :
                      dropped' = DropOf(dropped, data[at], g)
                /\ data' = [data EXCEPT ![at] = item]
                /\ last' = Call("push", "Ok", None, item, <<>>, 0, "")
    /\ next' = next + 1
    /\ UNCHANGED <<N, tCopy, pc, out>>
    /\ ready' = {}
    /\ UNCHANGED <<done, got>>

\* StaticVec::push(item) (lines 85-90).  The assignment through the &mut [T]
\* of as_mut_slice() drops what the slot held before it stores the item; on
\* CapacityExceeded the item, owned by push, is dropped on return.
Push ==
    /\ pc = "live"
    /\ next <= MaxElem
    /\ LET item == next
           old_len == len
           r == Resize(len, old_len + 1)
       IN  IF ~r.ok
           THEN /\ dropped' = DropOf(dropped, item, Uninit)
                /\ last' = Call("push", "CapacityExceeded", None, item, <<>>, 0, "")
                /\ len' = r.len
                /\ UNCHANGED data
           ELSE IF ~SliceInBounds(r.len)
           THEN /\ len' = r.len
                /\ dropped' = DropOf(dropped, item, Uninit)
                /\ last' = Call("push", "Panic", None, item, <<>>, 0, "")
                /\ UNCHANGED data
           ELSE /\ len' = r.len
                /\ \E g \in Garbage(data[old_len]) :
                      dropped' = DropOf(dropped, data[old_len], g)
                /\ data' = [data EXCEPT ![old_len] = item]
                /\ last' = Call("push", "Ok", None, item, <<>>, 0, "")
    /\ next' = next + 1
    /\ UNCHANGED <<N, tCopy, pc, out>>
    /\ ready' = {}
    /\ UNCHANGED <<done, got>>

\* copy_from_slice (line 98): slots [old_len, old_len + Len(other)) take other.
CopyFromSlice(d, old_len, other) ==
    [i \in DOMAIN d |->
        IF i >= old_len /\ i < old_len + Len(other) THEN other[i - old_len + 1] ELSE d[i]]

\* Faulty variant of TryExtendFromSlice: on overflow the items that fit are copied
\* before the error is returned.
TryExtendFromSliceTruncating(k) ==
    /\ pc = "live"
    /\ tCopy
    /\ next + k - 1 <= MaxElem
    /\ LET other == Fresh(k)
           old_len == len
           fit == IF k < N - old_len THEN k ELSE N - old_len
       IN  /\ len' = old_len + fit
           /\ data' = CopyFromSlice(data, old_len, SubSeq(other, 1, fit))
           /\ last' = Call("extend_slice", IF fit < k THEN "CapacityExceeded" ELSE "Ok",
                           None, k, <<>>, 0, "")
    /\ next' = next + k
    /\ UNCHANGED <<N, tCopy, pc, dropped, out>>
    /\ ready' = {}
    /\ UNCHANGED <<done, got>>

\* StaticVec::try_extend_from_slice(other) (lines 92-100); T: Copy.
TryExtendFromSlice(k) ==
    /\ pc = "live"
    /\ tCopy
    /\ next + k - 1 <= MaxElem
    /\ LET other == Fresh(k)
           old_len == len
           r == Resize(len, old_len + Len(other))
       IN  IF ~r.ok
           THEN /\ last' = Call("extend_slice", "CapacityExceeded", None, k, <<>>, 0, "")
                /\ len' = r.len
                /\ UNCHANGED data
           ELSE IF ~SliceInBounds(r.len)
           THEN /\ len' = r.len
                /\ last' = Call("extend_slice", "Panic", None, k, <<>>, 0, "")
                /\ UNCHANGED data
           ELSE /\ len' = r.len
                /\ data' = CopyFromSlice(data, old_len, other)
                /\ last' = Call("extend_slice", "Ok", None, k, <<>>, 0, "")
    /\ next' = next + k
    /\ UNCHANGED <<N, tCopy, pc, dropped, out>>
    /\ ready' = {}
    /\ UNCHANGED <<done, got>>

\* Faulty variant of ExtendLoop: the capacity is checked for all remaining items
\* before any is stored.
RECURSIVE ExtendLoopUpFront(_, _, _, _)
ExtendLoopUpFront(d, l, items, j) ==
    IF j >= Len(items)
    THEN [ok |-> TRUE, data |-> d, len |-> l, pulled |-> j]
    ELSE IF l + (Len(items) - j) > N
         THEN [ok |-> FALSE, data |-> d, len |-> l, pulled |-> j + 1]
         ELSE ExtendLoopUpFront([d EXCEPT ![l] = items[j + 1]], l + 1, items, j + 1)

\* Faulty variant of ExtendLoop: after the item that does not fit, the rest of
\* the source is pulled as well.
RECURSIVE ExtendLoopDrains(_, _, _, _)
ExtendLoopDrains(d, l, items, j) ==
    IF j >= Len(items)
    THEN [ok |-> TRUE, data |-> d, len |-> l, pulled |-> j]
    ELSE LET it == items[j + 1]
             last_item == l
             r == Resize(l, last_item + 1)
         IN  IF ~r.ok
             THEN [ok |-> FALSE, data |-> d, len |-> r.len, pulled |-> Len(items)]
             ELSE ExtendLoopDrains([d EXCEPT ![last_item] = it], r.len, items, j + 1)

\* The loop of try_extend_from_iter (lines 106-112), j items pulled so far:
\* pull an item, resize by one or return the error, write the slot.
RECURSIVE ExtendLoop(_, _, _, _)
ExtendLoop(d, l, items, j) ==
    IF j >= Len(items)
    THEN [ok |-> TRUE, data |-> d, len |-> l, pulled |-> j]
    ELSE LET it == items[j + 1]
             last_item == l
             r == Resize(l, last_item + 1)
         IN  IF ~r.ok
             THEN [ok |-> FALSE, data |-> d, len |-> r.len, pulled |-> j + 1]
             ELSE ExtendLoop([d EXCEPT ![last_item] = it], r.len, items, j + 1)

\* StaticVec::try_extend_from_iter(iter) (lines 102-114).  The item pulled
\* when resize fails is dropped on return; items never pulled stay in the source.
TryExtendFromIter(k) ==
    /\ pc = "live"
    /\ next + k - 1 <= MaxElem
    /\ LET items == Fresh(k)
           r == ExtendLoop(data, len, items, 0)
       IN  /\ data' = r.data
           /\ len' = r.len
           /\ next' = next + r.pulled
           /\ IF r.ok
              THEN /\ last' = Call("extend_iter", "Ok", None, k, <<>>, r.pulled, "")
                   /\ UNCHANGED dropped
              ELSE /\ last' = Call("extend_iter", "CapacityExceeded", None, k, <<>>,
                                   r.pulled, "")
                   /\ dropped' = DropOf(dropped, items[r.pulled], Uninit)
    /\ UNCHANGED <<N, tCopy, pc, out>>
    /\ ready' = {}
    /\ UNCHANGED <<done, got>>

\* Faulty variant of RemoveAt: swap-remove, the last element fills the hole.
RemoveAtSwap(d, l, index) ==
    [ret |-> d[index],
     data |-> [d EXCEPT ![index] = d[l - 1]],
     len |-> l - 1]

\* ptr::read(ptr) and ptr::copy(ptr.add(1), ptr, len - index - 1) (lines 147-155):
\* the element at index is read out and the len - index - 1 slots after it
\* move down by one; the last slot of the old prefix keeps its bits.
RemoveAt(d, l, index) ==
    [ret |-> d[index],
     data |-> [i \in DOMAIN d |->
                 IF i >= index /\ i < index + (l - index - 1) THEN d[i + 1] ELSE d[i]],
     len |-> l - 1]

\* Faulty variant of Remove: an index past the end is clamped to the last
\* element instead of being refused.
RemoveClamped(index) ==
    /\ pc = "live"
    /\ IF ~(len > 0)
       THEN /\ last' = Call("remove", "Panic", None, index, <<>>, 0, "")
            /\ UNCHANGED <<len, data, out>>
       ELSE LET at == IF index < len THEN index ELSE len - 1
                r == RemoveAt(data, len, at)
            IN  /\ data' = r.data
                /\ len' = r.len
                /\ out' = IF r.ret = Uninit THEN out ELSE out \cup {r.ret}
                /\ last' = Call("remove", "Ok", r.ret, index, <<>>, 0, "")
    /\ UNCHANGED <<N, tCopy, pc, next, dropped>>
    /\ ready' = {}
    /\ UNCHANGED <<done, got>>

\* StaticVec::remove(index) (lines 136-158).
Remove(index) ==
    /\ pc = "live"
    /\ IF ~(len > 0) \/ ~(index < len)
       THEN /\ last' = Call("remove", "Panic", None, index, <<>>, 0, "")
            /\ UNCHANGED <<len, data, out>>
       ELSE LET r == RemoveAt(data, len, index)
            IN  /\ data' = r.data
                /\ len' = r.len
                /\ out' = IF r.ret = Uninit THEN out ELSE out \cup {r.ret}
                /\ last' = Call("remove", "Ok", r.ret, index, <<>>, 0, "")
    /\ UNCHANGED <<N, tCopy, pc, next, dropped>>
    /\ ready' = {}
    /\ UNCHANGED <<done, got>>

\* The store goes out of scope.  StaticVec (lines 17-21) has no Drop impl and
\* [MaybeUninit<T>; N] never drops its content: no destructor runs.
DropStore ==
    /\ pc = "live"
    /\ pc' = "gone"
    /\ last' = Call("drop", "", None, 0, <<>>, 0, "")
    /\ UNCHANGED <<N, tCopy, len, data, next, dropped, out>>
    /\ ready' = {}
    /\ UNCHANGED <<done, got>>

----
\* The select combinators.  A stored future's poll step is the environment's:
\* a round is given rdy, the indices whose future reports Ready when polled
\* (for an unwritten slot the answer is whatever the garbage produces).

\* Faulty variant of PollScan: every future is polled and the last ready one wins.
PollScanLast(l, rdy, i, polled) ==
    LET hit == {k \in rdy : k >= i /\ k < l}
        all == polled \o [k \in 1..(l - i) |-> i + k - 1]
    IN  IF hit = {}
        THEN [winner |-> None, polled |-> all]
        ELSE [winner |-> CHOOSE k \in hit : \A m \in hit : m <= k, polled |-> all]

\* Faulty variant of PollScan: the scan does not stop at the first ready
\* future; every future is polled and the first ready one wins.
PollScanNoStop(l, rdy, i, polled) ==
    LET hit == {k \in rdy : k >= i /\ k < l}
        all == polled \o [k \in 1..(l - i) |-> i + k - 1]
    IN  IF hit = {}
        THEN [winner |-> None, polled |-> all]
        ELSE [winner |-> CHOOSE k \in hit : \A m \in hit : k <= m, polled |-> all]

\* for i in 0..len { poll(slot i); Ready => return } (lines 270-280, 304-314):
\* scans from index i; returns the first ready index (None if there is none)
\* and the indices polled, in the order they were polled.
RECURSIVE PollScan(_, _, _, _)
PollScan(l, rdy, i, polled) ==
    IF i >= l
    THEN [winner |-> None, polled |-> polled]
    ELSE IF i \in rdy
         THEN [winner |-> i, polled |-> Append(polled, i)]
         ELSE PollScan(l, rdy, i + 1, Append(polled, i))

\* Faulty variant of PollStore: a round over an empty store resolves.
PollStoreEmptyResolves(rdy, op, tag, before) ==
    LET s == PollScan(len, rdy, 0, before)
    IN  IF len = 0
        THEN /\ last' = Call(op, "Ready", None, None, s.polled, 0, tag)
             /\ UNCHANGED <<len, data, dropped>>
        ELSE IF s.winner = None
        THEN /\ last' = Call(op, "Pending", None, None, s.polled, 0, "")
             /\ UNCHANGED <<len, data, dropped>>
        ELSE LET r == RemoveAt(data, len, s.winner)
             IN  /\ data' = r.data
                 /\ len' = r.len
                 /\ \E g \in Garbage(r.ret) : dropped' = DropOf(dropped, r.ret, g)
                 /\ last' = Call(op, "Ready", r.ret, s.winner, s.polled, 0, tag)

\* Faulty variant of PollStore: a round without a winner forgets the last
\* stored future.
PollStorePendingTruncates(rdy, op, tag, before) ==
    LET s == PollScan(len, rdy, 0, before)
    IN  IF s.winner = None
        THEN /\ last' = Call(op, "Pending", None, None, s.polled, 0, "")
             /\ len' = IF len > 0 THEN len - 1 ELSE 0
             /\ UNCHANGED <<data, dropped>>
        ELSE LET r == RemoveAt(data, len, s.winner)
             IN  /\ data' = r.data
                 /\ len' = r.len
                 /\ \E g \in Garbage(r.ret) : dropped' = DropOf(dropped, r.ret, g)
                 /\ last' = Call(op, "Ready", r.ret, s.winner, s.polled, 0, tag)

\* Faulty variant of PollStore: the winner's result is returned but the winner
\* stays in the store.
PollStoreKeepsWinner(rdy, op, tag, before) ==
    LET s == PollScan(len, rdy, 0, before)
    IN  IF s.winner = None
        THEN /\ last' = Call(op, "Pending", None, None, s.polled, 0, "")
             /\ UNCHANGED <<len, data, dropped>>
        ELSE /\ last' = Call(op, "Ready", data[s.winner], s.winner, s.polled, 0, tag)
             /\ UNCHANGED <<len, data, dropped>>

\* The scan of the store and what follows it, shared by the two poll
\* functions: on Ready(x) at index i, self.0.remove(i), whose return value
\* (the completed future) is dropped at once, and Ready(x) is returned.
PollStore(rdy, op, tag, before) ==
    LET s == PollScan(len, rdy, 0, before)
    IN  IF s.winner = None
        THEN /\ last' = Call(op, "Pending", None, None, s.polled, 0, "")
             /\ UNCHANGED <<len, data, dropped>>
        ELSE LET r == RemoveAt(data, len, s.winner)
             IN  /\ data' = r.data
                 /\ len' = r.len
                 /\ \E g \in Garbage(r.ret) : dropped' = DropOf(dropped, r.ret, g)
                 /\ last' = Call(op, "Ready", r.ret, s.winner, s.polled, 0, tag)

\* <SelectVec as Future>::poll (lines 265-283) as a function of the store
\* (d, l) and of the futures that are complete: what it returns, what it
\* polls and the store it leaves.
SelectVecOutcome(d, l, rdy) ==
    LET s == PollScan(l, rdy, 0, <<>>)
    IN  IF s.winner = None
        THEN [res |-> "Pending", val |-> None, arg |-> None, polled |-> s.polled,
              len |-> l, data |-> d]
        ELSE LET r == RemoveAt(d, l, s.winner)
             IN  [res |-> "Ready", val |-> r.ret, arg |-> s.winner, polled |-> s.polled,
                  len |-> r.len, data |-> r.data]

\* <SelectVec as Future>::poll (lines 265-283).
SelectVecPoll(rdy) ==
    /\ pc = "live"
    /\ ready' = rdy
    /\ PollStore(rdy, "select", "", <<>>)
    /\ UNCHANGED <<N, tCopy, pc, next, out, done, got>>

\* Faulty variant of SelectVecAndFutPoll: the store is scanned before the extra
\* future is polled.
SelectVecAndFutPollStoreFirst(extra, rdy) ==
    /\ pc = "live"
    /\ ready' = rdy \cup (IF extra THEN {ExtraOut} ELSE {})
    /\ IF extra /\ rdy = {}
       THEN /\ last' = Call("select_and_fut", "Ready", ExtraOut, None, <<ExtraOut>>, 0, "Left")
            /\ UNCHANGED <<len, data, dropped>>
       ELSE PollStore(rdy, "select_and_fut", "Right", <<ExtraOut>>)
    /\ UNCHANGED <<N, tCopy, pc, next, out, done, got>>

\* Faulty variant of SelectVecAndFutPoll: a stored future that wins is not
\* removed from the store.
SelectVecAndFutPollKeepsWinner(extra, rdy) ==
    /\ pc = "live"
    /\ ready' = rdy \cup (IF extra THEN {ExtraOut} ELSE {})
    /\ IF extra
       THEN last' = Call("select_and_fut", "Ready", ExtraOut, None, <<ExtraOut>>, 0, "Left")
       ELSE LET s == PollScan(len, rdy, 0, <<ExtraOut>>)
            IN  IF s.winner = None
                THEN last' = Call("select_and_fut", "Pending", None, None, s.polled, 0, "")
                ELSE last' = Call("select_and_fut", "Ready", data[s.winner], s.winner,
                                  s.polled, 0, "Right")
    /\ UNCHANGED <<N, tCopy, pc, next, out, len, data, dropped, done, got>>

\* <SelectVecAndFut as Future>::poll (lines 294-317); extra: the extra future
\* reports Ready when polled.
SelectVecAndFutPoll(extra, rdy) ==
    /\ pc = "live"
    /\ ready' = rdy \cup (IF extra THEN {ExtraOut} ELSE {})
    /\ IF extra
       THEN /\ last' = Call("select_and_fut", "Ready", ExtraOut, None, <<ExtraOut>>, 0, "Left")
            /\ UNCHANGED <<len, data, dropped>>
       ELSE PollStore(rdy, "select_and_fut", "Right", <<ExtraOut>>)
    /\ UNCHANGED <<N, tCopy, pc, next, out, done, got>>

----
\* A caller that races the store again and again:
\*   loop { let x = SelectVec(&mut v).await; ... }
\* Each race builds a new SelectVec over the store and polls it until it
\* returns Ready.  SelectVec keeps no state of its own (line 258: it is the
\* &mut to the store), so a race is a run of poll rounds on the store.

\* The environment: the stored future e, not yet complete, completes.  From
\* then on it reports Ready whenever it is polled.
Complete(e) ==
    /\ pc = "live"
    /\ e \in Stored
    /\ e \notin done
    /\ done' = done \cup {e}
    /\ last' = Call("complete", "", None, e, <<>>, 0, "")
    /\ ready' = {}
    /\ UNCHANGED <<N, tCopy, pc, len, data, next, dropped, out, got>>

\* The slots of the occupied prefix whose future is complete.
ReadyIndices ==
    {i \in 0..(len - 1) : data[i] \in done}

\* One poll round of the current race: <SelectVec as Future>::poll (lines
\* 265-283) with the futures in done reporting Ready.  A round that returns
\* Ready resolves the race, and the caller logs its result.
RaceRound ==
    /\ pc = "live"
    /\ Len(got) <= MaxN
    /\ ready' = ReadyIndices
    /\ PollStore(ReadyIndices, "select", "", <<>>)
    /\ got' = IF last'.res = "Ready" THEN Append(got, last'.val) ELSE got
    /\ UNCHANGED <<N, tCopy, pc, next, out, done>>

Init ==
    /\ N \in 0..MaxN
    /\ tCopy \in BOOLEAN
    /\ pc = "none"
    /\ len = 0
    /\ data = [i \in 0..(N - 1) |-> Uninit]
    /\ next = 1
    /\ dropped = [e \in Elems |-> 0]
    /\ out = {}
    /\ ready = {}
    /\ last = Call("init", "", None, 0, <<>>, 0, "")
    /\ done = {}
    /\ got = <<>>

----
\* Claims.

\* C1: in every state reachable by new, push, try_extend_from_slice,
\* try_extend_from_iter, from_array, From and remove, 0 <= len <= N.
C1_LengthWithinCapacity ==
    len >= 0 /\ len <= N

\* C1 witness: a full store of capacity at least 2 has just refused to grow.
C1_Witness ==
    /\ pc = "live"
    /\ N >= 2
    /\ len = N
    /\ last.res = "CapacityExceeded"
    /\ last.op \in {"push", "extend_slice", "extend_iter"}

\* C2 (as claimed): every slot of the occupied prefix [0, len) has been
\* written, so no view covers an unwritten slot.
C2_PrefixWritten ==
    pc = "live" => \A i \in 0..(len - 1) : data[i] # Uninit

\* C3 (as claimed): no element is finalized more than once, no element held
\* in the occupied prefix is finalized, and an element remove() returned is
\* neither still in the store nor finalized by it.
C3_FinalizedAtMostOnceAndNotWhileOwned ==
    /\ \A e \in Elems : dropped[e] <= 1
    /\ \A e \in Stored : dropped[e] = 0
    /\ \A e \in out : dropped[e] = 0 /\ e \notin Stored

\* C4 (as claimed): once the store is destroyed, the elements of slots
\* [0, len) have each been finalized exactly once.
C4_DestroyFinalizesPrefix ==
    (pc = "gone" /\ ~tCopy) => \A e \in Stored : dropped[e] = 1

\* C5: push on a store with len = N returns CapacityExceeded and leaves len
\* and the contents of slots [0, len) unchanged.
C5_PushOnFullStoreFails ==
    [][(last'.op = "push" /\ len = N)
         => (last'.res = "CapacityExceeded" /\ len' = len /\ View' = View)]_vars

\* C5 witness: a push was refused by a full store holding two or more elements.
C5_Witness ==
    /\ last.op = "push"
    /\ last.res = "CapacityExceeded"
    /\ len = N
    /\ Cardinality(Stored) >= 2

\* C6: try_extend_from_slice is atomic: when len + items.len() > N it returns
\* CapacityExceeded and len and every slot are as before the call.
C6_ExtendFromSliceAtomic ==
    [][(last'.op = "extend_slice" /\ len + last'.arg > N)
         => (last'.res = "CapacityExceeded" /\ len' = len /\ data' = data)]_vars

\* C6 witness: a slice of two or more items was refused by a non-empty store
\* that still had room for a prefix of it.
C6_Witness ==
    /\ last.op = "extend_slice"
    /\ last.res = "CapacityExceeded"
    /\ last.arg >= 2
    /\ len >= 1
    /\ len < N

\* C7: try_extend_from_iter is not atomic: for a source of more items than
\* the free capacity N - len it returns CapacityExceeded, the store then holds
\* its old contents followed by the first N - len source items, len = N, and
\* the pushes that follow fail while the store stays full.
C7_ExtendFromIterPartial ==
    [][/\ (last'.op = "extend_iter" /\ last'.arg > N - len)
            => /\ last'.res = "CapacityExceeded"
               /\ len' = N
               /\ View' = View \o SubSeq(Fresh(last'.arg), 1, N - len)
       /\ (/\ last.op \in {"extend_iter", "push"}
           /\ last.res = "CapacityExceeded"
           /\ last'.op = "push")
            => (last'.res = "CapacityExceeded" /\ len' = N)]_vars

\* C7 witness: a store holding 1, 2 with one free slot was extended from a
\* source of two items: 3 was appended, the call failed and the store is full.
C7_Witness ==
    /\ last.op = "extend_iter"
    /\ last.res = "CapacityExceeded"
    /\ last.arg = 2
    /\ N = 3
    /\ View = <<1, 2, 3>>

\* The view v without its element at (0-based) index i.
Without(v, i) ==
    [j \in 1..(Len(v) - 1) |-> IF j <= i THEN v[j] ELSE v[j + 1]]

\* C8: remove(i) with 0 <= i < len returns the element at i and leaves a store
\* of length len - 1 holding the other elements in their original order.
C8_RemoveStable ==
    [][(last'.op = "remove" /\ last'.arg < len)
         => /\ last'.res = "Ok"
            /\ last'.val = data[last'.arg]
            /\ len' = len - 1
            /\ View' = Without(View, last'.arg)]_vars

\* C8 witness: remove(0) on the store 1, 2, 3 returned 1 and left 2, 3.
C8_Witness ==
    /\ last.op = "remove"
    /\ last.res = "Ok"
    /\ last.arg = 0
    /\ last.val = 1
    /\ View = <<2, 3>>

\* C9: in a SelectVec poll round over a store where one or more operations
\* are complete, the result is that of the complete operation with the lowest
\* index, only that operation is removed, and every other operation stays in
\* the store in its original relative order.
C9_LowestReadyIndexWins ==
    [][(last'.op = "select" /\ ready' # {})
         => LET w == CHOOSE i \in ready' : \A m \in ready' : i <= m
            IN  /\ last'.res = "Ready"
                /\ last'.arg = w
                /\ last'.val = data[w]
                /\ len' = len - 1
                /\ View' = Without(View, w)]_vars

\* C9 witness: the store 1, 2, 3 with 1 pending and 2, 3 complete was raced:
\* the round returned 2's result and left 1, 3.
C9_Witness ==
    /\ last.op = "select"
    /\ last.res = "Ready"
    /\ ready = {1, 2}
    /\ last.val = 2
    /\ View = <<1, 3>>

\* C10: in a SelectVecAndFut poll round in which the extra operation is
\* complete, the result is the extra operation's, tagged Either::Left,
\* whatever stored operations are complete; no stored operation is polled,
\* removed or dropped and the store's length and slots are unchanged.
C10_ExtraWinsStoreUntouched ==
    [][(last'.op = "select_and_fut" /\ ExtraOut \in ready')
         => /\ last'.res = "Ready"
            /\ last'.tag = "Left"
            /\ last'.val = ExtraOut
            /\ last'.polled = <<ExtraOut>>
            /\ len' = len
            /\ data' = data
            /\ dropped' = dropped]_vars

\* C10 witness: the extra operation won a round over the store 1, 2, 3 in
\* which the stored operations at indices 0 and 2 were complete as well.
C10_Witness ==
    /\ last.op = "select_and_fut"
    /\ last.tag = "Left"
    /\ ready = {ExtraOut, 0, 2}
    /\ View = <<1, 2, 3>>

\* C11: a SelectVec poll round over an empty store reports Pending, polls
\* nothing and leaves the store empty, so the next round meets an empty store
\* again: no number of rounds resolves the race while the store stays empty.
C11_EmptyStoreAlwaysPending ==
    [][(last'.op = "select" /\ len = 0)
         => /\ last'.res = "Pending"
            /\ last'.polled = <<>>
            /\ len' = 0
            /\ data' = data]_vars

\* C11 witness: a store of capacity 2 or more that races have emptied was
\* polled and reported Pending.
C11_Witness ==
    /\ pc = "live"
    /\ N >= 2
    /\ len = 0
    /\ last.op = "select"
    /\ last.res = "Pending"
    /\ Cardinality({e \in Elems : dropped[e] > 0}) >= 2

\* C12: a successful push adds one to len and appends the pushed element to
\* the view, all earlier elements keeping their index, and a push on a store
\* with a free slot succeeds; so after k <= N pushes onto an empty store
\* len = k and as_slice() holds the pushed elements in push order, and after
\* interleaved removes it holds what the removes left followed by the later
\* pushes.
C12_PushAppendsInOrder ==
    [][(last'.op = "push" /\ len < N)
         => /\ last'.res = "Ok"
            /\ len' = len + 1
            /\ View' = Append(View, last'.arg)]_vars

\* C12 witness: the third element was pushed onto a store of capacity 3 from
\* which nothing was removed: len = 3 and the view is 1, 2, 3.
C12_Witness ==
    /\ last.op = "push"
    /\ last.res = "Ok"
    /\ N = 3
    /\ len = 3
    /\ out = {}
    /\ next = 4
    /\ View = <<1, 2, 3>>

\* C13: from_array of a source of A <= N elements gives a store with len = A,
\* and From<[T; N]> one with len = N; in both as_slice() holds the source's
\* elements in source order.
C13_FromArrayRoundTrip ==
    [][/\ (last'.op = "from_array")
            => (pc' = "live" /\ len' = last'.arg /\ View' = Fresh(last'.arg))
       /\ (last'.op = "from")
            => (pc' = "live" /\ len' = N /\ View' = Fresh(N))]_vars

\* C13 witness: from_array([1, 2]) built a store of capacity 3 with len = 2
\* and view 1, 2.
C13_Witness ==
    /\ last.op = "from_array"
    /\ last.arg = 2
    /\ N = 3
    /\ len = 2
    /\ View = <<1, 2>>

\* C14: remove(index) with index >= len (any index on an empty store) panics
\* on its assertions instead of returning an error value, and no slot has
\* been read out, moved or dropped and len is unchanged when it does.
C14_RemoveOutOfRangeFailsFast ==
    [][(last'.op = "remove" /\ last'.arg >= len)
         => /\ last'.res = "Panic"
            /\ last'.val = None
            /\ len' = len
            /\ data' = data
            /\ out' = out
            /\ dropped' = dropped]_vars

\* C14 witness: remove(2) was refused by the store 1, 2 of capacity 3, whose
\* slot 2 exists but lies outside the occupied prefix.
C14_Witness ==
    /\ last.op = "remove"
    /\ last.res = "Panic"
    /\ last.arg = 2
    /\ N = 3
    /\ View = <<1, 2>>

\* C15: new(n) returns CapacityExceeded exactly when n > N and builds no
\* store then; otherwise it returns a store with len = n.  A push that
\* follows new(n) with n < N stores its item at index n and makes len n + 1.
C15_NewChecksCapacity ==
    [][/\ (last'.op = "new")
            => /\ (last'.res = "CapacityExceeded") <=> (last'.arg > N)
               /\ (last'.res = "Ok") <=> (last'.arg <= N)
               /\ (last'.arg > N) => (pc' = "none")
               /\ (last'.arg <= N) => (pc' = "live" /\ len' = last'.arg)
       /\ (last.op = "new" /\ last.res = "Ok" /\ last.arg < N /\ last'.op = "push")
            => /\ last'.res = "Ok"
               /\ data'[last.arg] = last'.arg
               /\ len' = last.arg + 1]_vars

\* C15 witness: new(1) at capacity 3, then a push: the pushed element 1 sits
\* at index 1, after the slot new(1) counted, and len = 2.
C15_Witness ==
    /\ last.op = "push"
    /\ last.res = "Ok"
    /\ N = 3
    /\ len = 2
    /\ data[0] = Uninit
    /\ data[1] = 1

\* The stored futures a round polled, in the order it polled them.
StoredPolled(polled) ==
    SelectSeq(polled, LAMBDA x : x # ExtraOut)

\* C16: in one poll round of SelectVec or SelectVecAndFut the stored futures
\* polled are those at indices 0, 1, 2, ... in this order, each once; the
\* scan ends with the first one that reports Ready (none before it did), the
\* futures after the winner are not polled and stay in the store in their
\* order; with no winner the scan covers indices 0..len-1.
C16_ScanInIndexOrderStopsAtWinner ==
    [][(last'.op \in {"select", "select_and_fut"} /\ last'.tag # "Left")
         => LET sp == StoredPolled(last'.polled)
            IN  /\ \A j \in 1..Len(sp) : sp[j] = j - 1
                /\ \A j \in 1..(Len(sp) - 1) : sp[j] \notin ready'
                /\ IF last'.res = "Ready"
                   THEN /\ Len(sp) = last'.arg + 1
                        /\ last'.arg \in ready'
                        /\ \A i \in (last'.arg + 1)..(len - 1) : data'[i - 1] = data[i]
                        /\ len' = len - 1
                   ELSE Len(sp) = len]_vars

\* C16 witness: a SelectVecAndFut round over the store 1, 2, 3 with the
\* futures at indices 1 and 2 complete polled the extra future, index 0 and
\* index 1, and left 1, 3: index 2 was not polled and is still stored.
C16_Witness ==
    /\ last.op = "select_and_fut"
    /\ last.res = "Ready"
    /\ ready = {1, 2}
    /\ last.polled = <<ExtraOut, 0, 1>>
    /\ View = <<1, 3>>

\* C17: a poll round of SelectVec, or of SelectVecAndFut, in which nothing is
\* complete (no stored future and not the extra one) reports Pending after
\* polling each of the stored futures 0..len-1 once, and len, every slot and
\* so the order of the elements are as before the round.
C17_PendingRoundLeavesStore ==
    [][(last'.op \in {"select", "select_and_fut"} /\ ready' = {})
         => /\ last'.res = "Pending"
            /\ StoredPolled(last'.polled) = [j \in 1..len |-> j - 1]
            /\ len' = len
            /\ data' = data
            /\ dropped' = dropped]_vars

\* C17 witness: a SelectVec round over the store 1, 2, 3 with nothing
\* complete polled indices 0, 1, 2, reported Pending and left 1, 2, 3.
C17_Witness ==
    /\ last.op = "select"
    /\ last.res = "Pending"
    /\ ready = {}
    /\ last.polled = <<0, 1, 2>>
    /\ View = <<1, 2, 3>>

\* C18: every SelectVecAndFut round polls the extra future once, before any
\* stored future.  In a round where the extra future is pending, the stored
\* futures polled, the result, the winner and the store left behind are those
\* of a SelectVec round on the same store, the result of a winner is tagged
\* Either::Right and the winner is removed.
C18_AndFutRefinesSelectVec ==
    [][(last'.op = "select_and_fut")
         => /\ Len(last'.polled) >= 1
            /\ last'.polled[1] = ExtraOut
            /\ \A j \in 2..Len(last'.polled) : last'.polled[j] # ExtraOut
            /\ (ExtraOut \notin ready')
                 => LET o == SelectVecOutcome(data, len, ready')
                    IN  /\ last'.res = o.res
                        /\ last'.val = o.val
                        /\ last'.arg = o.arg
                        /\ StoredPolled(last'.polled) = o.polled
                        /\ len' = o.len
                        /\ data' = o.data
                        /\ (o.res = "Ready")
                             => /\ last'.tag = "Right"
                                /\ len' = len - 1
                                /\ View' = Without(View, o.arg)]_vars

\* C18 witness: with the extra future pending, a SelectVecAndFut round over
\* the store 1, 2, 3 with indices 0 and 2 complete returned Right(1) after
\* polling the extra future and index 0, and left 2, 3.
C18_Witness ==
    /\ last.op = "select_and_fut"
    /\ last.tag = "Right"
    /\ ready = {0, 2}
    /\ last.val = 1
    /\ last.polled = <<ExtraOut, 0>>
    /\ View = <<2, 3>>

\* C19: a try_extend_from_iter call whose source holds more items than the
\* free capacity N - len fails having pulled N - len + 1 items: those that
\* fit and one more.  That item is in no slot and was not handed to the
\* caller; it was dropped, and the items after it are still in the source.
\* A call whose source holds at most N - len items (an empty source on a full
\* store included) returns Ok, having pulled and appended all of them.
C19_ExtendFromIterPullsOneBeyond ==
    [][(last'.op = "extend_iter")
         => LET free == N - len
                x == next + free
            IN  IF last'.arg > free
                THEN /\ last'.res = "CapacityExceeded"
                     /\ last'.pulled = free + 1
                     /\ next' = x + 1
                     /\ \A i \in 0..(N - 1) : data'[i] # x
                     /\ x \notin out'
                     /\ last'.val = None
                     /\ dropped'[x] = IF tCopy THEN 0 ELSE 1
                ELSE /\ last'.res = "Ok"
                     /\ last'.pulled = last'.arg
                     /\ len' = len + last'.arg
                     /\ View' = View \o Fresh(last'.arg)
                     /\ dropped' = dropped]_vars

\* C19 witness: a full store of capacity 1 holding element 1 was extended from
\* a source of two items of a type with a destructor: item 2 was pulled and
\* dropped, the second item was not pulled, and the store still holds 1.
C19_Witness ==
    /\ last.op = "extend_iter"
    /\ last.res = "CapacityExceeded"
    /\ last.arg = 2
    /\ last.pulled = 1
    /\ ~tCopy
    /\ N = 1
    /\ View = <<1>>
    /\ next = 3
    /\ dropped[2] = 1

\* How many times x occurs in the sequence s.
Count(s, x) ==
    Cardinality({j \in 1..Len(s) : s[j] = x})

\* The futures the store raced was built from: every element created.
Original ==
    1..(next - 1)

\* C20: a store built from L futures is raced again and again by SelectVec,
\* every stored future completes at some time and stays complete, and the
\* race is polled again and again.  Then every race that resolves takes one
\* future out of the store and returns a result that no earlier race
\* returned; the races resolved and the futures still stored always add up
\* to L; and in the end the store is empty, L races have resolved and each
\* of the L futures' results has been returned once.
C20_RacesDrainStore ==
    /\ [][(last'.op = "select" /\ last'.res = "Ready")
            => /\ len' = len - 1
               /\ last'.val \in Stored
               /\ Count(got, last'.val) = 0
               /\ got' = Append(got, last'.val)]_vars
    /\ [](pc = "live" => Len(got) + len = Cardinality(Original))
    /\ (pc = "live")
         ~> [](/\ len = 0
               /\ Len(got) = Cardinality(Original)
               /\ \A e \in Original : Count(got, e) = 1)

\* C20 witness: a store built from three futures has been emptied by three
\* resolved races, whose results came in the order 2, 3, 1.
C20_Witness ==
    /\ pc = "live"
    /\ N = 3
    /\ len = 0
    /\ got = <<2, 3, 1>>
    /\ last.op = "select"
    /\ last.res = "Ready"

----
\* The bounded store alone, T any element type.
Next ==
    \/ \E n \in 0..(MaxN + 1) : New(n)
    \/ \E a \in 0..MaxSrc : FromArray(a)
    \/ FromFull
    \/ Default
    \/ Push
    \/ \E k \in 0..MaxSrc : TryExtendFromSlice(k)
    \/ \E k \in 0..MaxSrc : TryExtendFromIter(k)
    \/ \E index \in 0..MaxN : Remove(index)
    \/ DropStore

Spec ==
    Init /\ [][Next]_vars

\* A store of futures (T: Future + Unpin) built by a constructor and raced by
\* the select combinators, with the removals a caller runs between races.
NextSelect ==
    \/ \E n \in 0..(MaxN + 1) : New(n)
    \/ \E a \in 0..MaxSrc : FromArray(a)
    \/ FromFull
    \/ \E index \in 0..MaxN : Remove(index)
    \/ \E rdy \in SUBSET (0..(len - 1)) : SelectVecPoll(rdy)
    \/ \E extra \in BOOLEAN, rdy \in SUBSET (0..(len - 1)) : SelectVecAndFutPoll(extra, rdy)
    \/ DropStore

SpecSelect ==
    Init /\ [][NextSelect]_vars

\* A store of futures built from an array and raced repeatedly by SelectVec
\* while its futures complete one by one.
NextRace ==
    \/ \E a \in 0..MaxSrc : FromArray(a)
    \/ FromFull
    \/ \E e \in Elems : Complete(e)
    \/ RaceRound

\* Every stored future completes at some time (and stays complete), and the
\* caller's executor keeps polling the race it awaits.
SpecRace ==
    /\ Init
    /\ [][NextRace]_vars
    /\ \A e \in Elems : WF_vars(Complete(e))
    /\ WF_vars(RaceRound)
====
